---- MODULE Spec2Model ----
(***************************************************************************)
(* A model of the expense canister of src/icp_rust_boilerplate_backend:   *)
(* the durable id counter (ID_COUNTER), the durable ordered map of         *)
(* expenses (STORAGE) and the update and query calls of lib.rs.  The       *)
(* canister executes one message at a time; every action below is one      *)
(* whole message execution.  A message that panics traps, and a trapped    *)
(* message leaves the canister state as it was before the message.         *)
(***************************************************************************)
EXTENDS Integers, Sequences, FiniteSets, TLC

VARIABLES ID_COUNTER, STORAGE, now, resp, issued, inflight

vars == <<ID_COUNTER, STORAGE, now, resp, issued, inflight>>

(***************************************************************************)
(* Bounds of the model.                                                    *)
(***************************************************************************)
\* add_expense allocates ids 0 .. MaxId-1
MaxId == 2
\* the canister clock runs over 1 .. MaxTime
MaxTime == 2
\* at most MaxInflight executions of add_expense are under way at once
MaxInflight == 2

(***************************************************************************)
(* Option<T>: None is the empty sequence, Some(x) the one-element one.     *)
(***************************************************************************)
None == <<>>
Some(x) == <<x>>
IsSome(o) == Len(o) = 1
Unwrap(o) == o[1]

(***************************************************************************)
(* Strings.  A String is kept run-length encoded: a sequence of            *)
(* <<character, count>> runs, so that a description longer than the        *)
(* encoding bound is a small value.  Every character used is one byte.     *)
(***************************************************************************)
RECURSIVE StrLen(_)
StrLen(s) == IF s = <<>> THEN 0 ELSE s[1][2] + StrLen(Tail(s))

\* String::is_empty
is_empty(s) == StrLen(s) = 0

\* a string all of whose characters are whitespace (the empty one included)
IsBlank(s) == \A i \in 1..Len(s) : s[i][2] = 0 \/ s[i][1] = " "

\* the string of n characters c
Str(c, n) == IF n = 0 THEN <<>> ELSE << <<c, n>> >>

(***************************************************************************)
(* f64.  A float is either NaN or a number; the numbers of the model are   *)
(* small integers, on which f64 arithmetic is exact.                       *)
(***************************************************************************)
F64(v) == [nan |-> FALSE, v |-> v]
NaN == [nan |-> TRUE, v |-> 0]

\* F64Le with the comparison made strict
F64Le_strict(a, b) == ~a.nan /\ ~b.nan /\ a.v < b.v

\* a <= b on f64: false as soon as one side is NaN
F64Le(a, b) == ~a.nan /\ ~b.nan /\ a.v <= b.v
\* a > b on f64: false as soon as one side is NaN
F64Gt(a, b) == ~a.nan /\ ~b.nan /\ a.v > b.v

\* an addition that drops its right operand
F64Add_left(a, b) == a

\* a + b on f64: NaN as soon as one side is NaN
F64Add(a, b) == IF a.nan \/ b.nan THEN NaN ELSE F64(a.v + b.v)

\* f64::partial_cmp: no ordering as soon as one side is NaN
partial_cmp(a, b) ==
    IF a.nan \/ b.nan THEN None
    ELSE Some(IF a.v < b.v THEN "Less" ELSE IF a.v = b.v THEN "Equal" ELSE "Greater")

(***************************************************************************)
(* usize.  A canister is built for wasm32, where usize has 32 bits; a      *)
(* usize is kept as two 16-bit limbs <<high, low>>.  An arithmetic         *)
(* operation yields the wrapped value and whether it overflowed: a build   *)
(* with overflow checks panics on overflow, one without them wraps.        *)
(***************************************************************************)
\* 2^16, the weight of the high limb
Limb == 65536

\* the usize of a number n < 2^31
USize(n) == <<n \div Limb, n % Limb>>

\* the product of two limbs x, y < 2^16 as <<high, low>>, by 8-bit halves
LimbMul(x, y) ==
    LET x1 == x \div 256
        x0 == x % 256
        y1 == y \div 256
        y0 == y % 256
        mid == x1 * y0 + x0 * y1
        low == x0 * y0 + (mid % 256) * 256
    IN <<x1 * y1 + mid \div 256 + low \div Limb, low % Limb>>

\* a - b
usize_sub(a, b) ==
    LET borrow == IF a[2] < b[2] THEN 1 ELSE 0
        low == a[2] - b[2] + borrow * Limb
        high == a[1] - b[1] - borrow
    IN [val |-> <<IF high < 0 THEN high + Limb ELSE high, low>>,
        overflow |-> high < 0]

\* a * b
usize_mul(a, b) ==
    LET p0 == LimbMul(a[2], b[2])
        p1 == LimbMul(a[1], b[2])
        p2 == LimbMul(a[2], b[1])
        high == p0[1] + p1[2] + p2[2]
    IN [val |-> <<high % Limb, p0[2]>>,
        overflow |-> \/ (a[1] > 0 /\ b[1] > 0)
                     \/ p1[1] > 0 \/ p2[1] > 0
                     \/ high >= Limb]

\* a + b
usize_add(a, b) ==
    LET low == a[2] + b[2]
        high == a[1] + b[1] + low \div Limb
    IN [val |-> <<high % Limb, low % Limb>>,
        overflow |-> high >= Limb]

\* min(a, n) for a usize a and a number n < 2^16
Saturated(a, n) == IF a[1] > 0 \/ a[2] > n THEN n ELSE a[2]

\* Iterator::skip(n) on a sequence
Skip(seq, n) == SubSeq(seq, Saturated(n, Len(seq)) + 1, Len(seq))

\* Iterator::take(n) on a sequence
Take(seq, n) == SubSeq(seq, 1, Saturated(n, Len(seq)))

(***************************************************************************)
(* The Candid encoding of an Expense and its declared bound.               *)
(***************************************************************************)
\* BoundedStorable::MAX_SIZE
MAX_SIZE == 1024
\* "DIDL", the type table of the six-field record (field ids are 32-bit
\* hashes of the field names, LEB128) and the argument's type index
CandidHeaderSize == 45
\* id, amount, date, created_at: 8 bytes each
CandidFixedSize == 32

\* the length of the unsigned LEB128 encoding of n
RECURSIVE Leb128Len(_)
Leb128Len(n) == IF n < 128 THEN 1 ELSE 1 + Leb128Len(n \div 128)

\* the number of bytes of Encode!(expense)
EncodedSize(expense) ==
    CandidHeaderSize + CandidFixedSize
    + Leb128Len(StrLen(expense.description)) + StrLen(expense.description)
    + (IF IsSome(expense.updated_at) THEN 9 ELSE 1)

(***************************************************************************)
(* Results of a call.                                                      *)
(***************************************************************************)
Ok(v) == [tag |-> "Ok", val |-> v]
Err(e) == [tag |-> "Err", val |-> e]
\* the message panicked: the call is rejected and its state changes dropped
Trap(why) == [tag |-> "Trap", val |-> why]

\* format!(fmt, args..): the template and the values put into it
Format(fmt, args) == [fmt |-> fmt, args |-> args]

NotFound(msg) == [variant |-> "NotFound", msg |-> msg]
InvalidInput(msg) == [variant |-> "InvalidInput", msg |-> msg]

\* a step that carries no arguments
NoArgs == [none |-> TRUE]

\* the response of the message executed by the last step: the call, its
\* arguments by name, and what it returned
Response(op, args, ret) == [op |-> op, args |-> args, ret |-> ret]

(***************************************************************************)
(* The record store.                                                       *)
(***************************************************************************)
\* StableBTreeMap::init on a fresh memory
EmptyMap == [k \in {} |-> None]

\* _get_expense falling back to Expense::default() for an absent id
_get_expense_or_default(id) ==
    IF id \in DOMAIN STORAGE
    THEN Some(STORAGE[id])
    ELSE Some([id |-> 0, description |-> <<>>, amount |-> F64(0), date |-> 0,
               created_at |-> 0, updated_at |-> None])

\* StableBTreeMap::get
_get_expense(id) == IF id \in DOMAIN STORAGE THEN Some(STORAGE[id]) ELSE None

\* an insert that accepts a value of any size
Fits_unbounded(expense) == TRUE

\* StableBTreeMap::insert accepts a value only within the declared bound
Fits(expense) == EncodedSize(expense) <= MAX_SIZE

\* do_insert storing the record under its date
do_insert_under_date(expense) ==
    [k \in DOMAIN STORAGE \cup {expense.date} |->
        IF k = expense.date THEN expense ELSE STORAGE[k]]

\* do_insert with the insertion left out
do_insert_skipped(expense) == STORAGE

\* the map after insert(expense.id, expense)
do_insert(expense) ==
    [k \in DOMAIN STORAGE \cup {expense.id} |->
        IF k = expense.id THEN expense ELSE STORAGE[k]]

\* what remove(id) returns: the value the map held
removed(id) == IF id \in DOMAIN STORAGE THEN Some(STORAGE[id]) ELSE None

\* do_remove reading the entry without removing it
do_remove_kept(id) == STORAGE

\* the map after remove(id)
do_remove(id) == [k \in DOMAIN STORAGE \ {id} |-> STORAGE[k]]

\* StableBTreeMap::iter: the stored records in ascending key order
RECURSIVE IterFrom(_)
IterFrom(keys) ==
    IF keys = {} THEN <<>>
    ELSE LET k == CHOOSE x \in keys : \A y \in keys : x <= y
         IN <<STORAGE[k]>> \o IterFrom(keys \ {k})

all_expenses == IterFrom(DOMAIN STORAGE)

\* the message changed nothing (an early return, a query, or a trap)
NoChange == UNCHANGED <<ID_COUNTER, STORAGE, now, issued, inflight>>

TypeOK ==
    /\ ID_COUNTER \in 0..MaxId
    /\ DOMAIN STORAGE \subseteq 0..(MaxId - 1)
    /\ now \in 1..MaxTime
    /\ Len(issued) <= MaxId
    /\ Len(inflight) <= MaxInflight

Init ==
    /\ ID_COUNTER = 0
    /\ STORAGE = EmptyMap
    /\ now = 1
    /\ resp = Response("init", NoArgs, Ok(<<>>))
    /\ issued = <<>>
    /\ inflight = <<>>

(***************************************************************************)
(* Inputs.                                                                 *)
(***************************************************************************)
ExpensePayload(description, amount, date) ==
    [description |-> description, amount |-> amount, date |-> date]

\* the payloads of Spec: two valid ones, amounts <= 0, an empty description,
\* both at once, and a description past the encoding bound
Payloads ==
    { ExpensePayload(Str("a", 1), F64(1), 1),
      ExpensePayload(Str("a", 1), F64(2), 2),
      ExpensePayload(Str("a", 1), F64(0), 1),
      ExpensePayload(Str("a", 1), F64(-1), 1),
      ExpensePayload(Str("a", 0), F64(1), 1),
      ExpensePayload(Str("a", 0), F64(0), 1),
      ExpensePayload(Str("a", 1100), F64(1), 1) }

\* the payloads of EdgeSpec: a valid one, a whitespace-only description and
\* a zero date
EdgePayloads ==
    { ExpensePayload(Str("a", 1), F64(1), 1),
      ExpensePayload(Str(" ", 2), F64(1), 1),
      ExpensePayload(Str("a", 1), F64(1), 0) }

\* the payloads of QuerySpec
QueryPayloads ==
    { ExpensePayload(Str("a", 1), F64(1), 1),
      ExpensePayload(Str("a", 1), F64(2), 2),
      ExpensePayload(Str("a", 1), NaN, 1) }

\* the dates a caller passes as the ends of a range
DateInputs == 0..3

\* the thresholds a caller passes
AmountInputs == {F64(0), F64(1), F64(2), NaN}

\* the page numbers and page sizes a caller passes: small ones, and two
\* whose product does not fit a usize
PageInputs == {0, 1, 2, 3, 65536, 65537}

\* the ids a caller passes: every id ever allocated, and one never allocated
Ids == 0..MaxId

(***************************************************************************)
(* The calls.                                                              *)
(***************************************************************************)
\* current_value taken from the number of stored records
current_value_len == Cardinality(DOMAIN STORAGE)

\* the counter value add_expense reads
current_value == ID_COUNTER

\* new_expense taking the id to be the counter after the increment
new_expense_next_id(id, payload) ==
    [id |-> id + 1,
     description |-> payload.description,
     amount |-> payload.amount,
     date |-> payload.date,
     created_at |-> now,
     updated_at |-> None]

\* the record add_expense builds
new_expense(id, payload) ==
    [id |-> id,
     description |-> payload.description,
     amount |-> payload.amount,
     date |-> payload.date,
     created_at |-> now,
     updated_at |-> None]

\* updated_expense stamping created_at as well
updated_expense_restamped(expense, payload) ==
    [expense EXCEPT !.description = payload.description,
                    !.amount = payload.amount,
                    !.date = payload.date,
                    !.created_at = now,
                    !.updated_at = Some(now)]

\* the record update_expense builds from the stored one
updated_expense(expense, payload) ==
    [expense EXCEPT !.description = payload.description,
                    !.amount = payload.amount,
                    !.date = payload.date,
                    !.updated_at = Some(now)]

\* a lookup that takes the record out of the map as it answers
get_expense_taking(id) ==
    /\ resp' = Response("get_expense", [id |-> id],
                 IF IsSome(removed(id))
                 THEN Ok(Unwrap(removed(id)))
                 ELSE Err(NotFound(Format("Expense with id={} not found", <<id>>))))
    /\ STORAGE' = do_remove(id)
    /\ UNCHANGED <<ID_COUNTER, now, issued, inflight>>

\* fn get_expense (query)
get_expense(id) ==
    /\ resp' = Response("get_expense", [id |-> id],
                 IF IsSome(_get_expense(id))
                 THEN Ok(Unwrap(_get_expense(id)))
                 ELSE Err(NotFound(Format("Expense with id={} not found", <<id>>))))
    /\ NoChange

\* fn add_expense (update)
add_expense(payload) ==
    LET call(ret) == Response("add_expense", [payload |-> payload], ret) IN
    IF F64Le(payload.amount, F64(0))
    THEN /\ resp' = call(Err(InvalidInput(Format("Amount must be greater than zero", <<>>))))
         /\ NoChange
    ELSE IF is_empty(payload.description)
    THEN /\ resp' = call(Err(InvalidInput(Format("Description cannot be empty", <<>>))))
         /\ NoChange
    ELSE /\ ID_COUNTER < MaxId
         /\ LET \* Cell::set returns the value it replaces
                id == current_value
                expense == new_expense(id, payload)
            IN IF Fits(expense)
               THEN /\ ID_COUNTER' = current_value + 1
                    /\ STORAGE' = do_insert(expense)
                    /\ issued' = Append(issued, expense.id)
                    /\ resp' = call(Ok(expense))
                    /\ UNCHANGED <<now, inflight>>
               ELSE \* insert panics: the counter write is dropped with the message
                    /\ resp' = call(Trap("Value is too large"))
                    /\ NoChange

\* update_expense looking the id up before it validates the payload
update_expense_lookup_first(id, payload) ==
    LET call(ret) == Response("update_expense", [id |-> id, payload |-> payload], ret) IN
    IF ~IsSome(_get_expense(id))
    THEN /\ resp' = call(Err(NotFound(
                Format("Couldn't update expense with id={}. Expense not found.", <<id>>))))
         /\ NoChange
    ELSE IF F64Le(payload.amount, F64(0))
    THEN /\ resp' = call(Err(InvalidInput(Format("Amount must be greater than zero", <<>>))))
         /\ NoChange
    ELSE IF is_empty(payload.description)
    THEN /\ resp' = call(Err(InvalidInput(Format("Description cannot be empty", <<>>))))
         /\ NoChange
    ELSE LET expense == updated_expense(Unwrap(_get_expense(id)), payload)
         IN IF Fits(expense)
            THEN /\ STORAGE' = do_insert(expense)
                 /\ resp' = call(Ok(expense))
                 /\ UNCHANGED <<ID_COUNTER, now, issued, inflight>>
            ELSE /\ resp' = call(Trap("Value is too large"))
                 /\ NoChange

\* fn update_expense (update)
update_expense(id, payload) ==
    LET call(ret) == Response("update_expense", [id |-> id, payload |-> payload], ret) IN
    IF F64Le(payload.amount, F64(0))
    THEN /\ resp' = call(Err(InvalidInput(Format("Amount must be greater than zero", <<>>))))
         /\ NoChange
    ELSE IF is_empty(payload.description)
    THEN /\ resp' = call(Err(InvalidInput(Format("Description cannot be empty", <<>>))))
         /\ NoChange
    ELSE IF IsSome(_get_expense(id))
    THEN LET expense == updated_expense(Unwrap(_get_expense(id)), payload)
         IN IF Fits(expense)
            THEN /\ STORAGE' = do_insert(expense)
                 /\ resp' = call(Ok(expense))
                 /\ UNCHANGED <<ID_COUNTER, now, issued, inflight>>
            ELSE /\ resp' = call(Trap("Value is too large"))
                 /\ NoChange
    ELSE /\ resp' = call(Err(NotFound(
                Format("Couldn't update expense with id={}. Expense not found.", <<id>>))))
         /\ NoChange

\* fn delete_expense (update)
delete_expense(id) ==
    LET call(ret) == Response("delete_expense", [id |-> id], ret) IN
    IF IsSome(removed(id))
    THEN /\ STORAGE' = do_remove(id)
         /\ resp' = call(Ok(Unwrap(removed(id))))
         /\ UNCHANGED <<ID_COUNTER, now, issued, inflight>>
    ELSE /\ resp' = call(Err(NotFound(
                Format("Couldn't delete expense with id={}. Expense not found.", <<id>>))))
         /\ NoChange

\* fn get_paginated_expenses (query); checked tells whether the build
\* panics on arithmetic overflow or wraps
get_paginated_expenses(page, per_page, checked) ==
    LET call(ret) == Response("get_paginated_expenses",
                              [page |-> page, per_page |-> per_page], ret)
        page_minus_1 == usize_sub(USize(page), USize(1))
        start == usize_mul(page_minus_1.val, USize(per_page))
        end == usize_add(start.val, USize(per_page))
    IN /\ resp' = IF checked /\ (page_minus_1.overflow \/ start.overflow \/ end.overflow)
                  THEN call(Trap("attempt to compute with overflow"))
                  ELSE call(Ok(Take(Skip(all_expenses, start.val), USize(per_page))))
       /\ NoChange

\* a range filter that leaves the end date out
in_date_range_open_end(expense, start_date, end_date) ==
    expense.date >= start_date /\ expense.date < end_date

\* the filter of get_expenses_by_date_range
in_date_range(expense, start_date, end_date) ==
    expense.date >= start_date /\ expense.date <= end_date

\* a threshold filter that also keeps an amount equal to the threshold
above_amount_or_equal(expense, min_amount) ==
    F64Gt(expense.amount, min_amount) \/ expense.amount = min_amount

\* the filter of get_expenses_above_amount
above_amount(expense, min_amount) == F64Gt(expense.amount, min_amount)

\* fn get_expenses_by_date_range (query)
get_expenses_by_date_range(start_date, end_date) ==
    LET keep(expense) == in_date_range(expense, start_date, end_date)
    IN /\ resp' = Response("get_expenses_by_date_range",
                           [start_date |-> start_date, end_date |-> end_date],
                           Ok(SelectSeq(all_expenses, keep)))
       /\ NoChange

\* fn get_expenses_above_amount (query)
get_expenses_above_amount(min_amount) ==
    LET keep(expense) == above_amount(expense, min_amount)
    IN /\ resp' = Response("get_expenses_above_amount", [min_amount |-> min_amount],
                           Ok(SelectSeq(all_expenses, keep)))
       /\ NoChange

\* Iterator::sum over the amounts of a sequence of records, from 0.0
RECURSIVE sum_amounts(_)
sum_amounts(seq) ==
    IF seq = <<>> THEN F64(0)
    ELSE F64Add(sum_amounts(SubSeq(seq, 1, Len(seq) - 1)), seq[Len(seq)].amount)

\* fn calculate_total_expenses (query)
calculate_total_expenses ==
    /\ resp' = Response("calculate_total_expenses", NoArgs, Ok(sum_amounts(all_expenses)))
    /\ NoChange

\* the comparator of get_expenses_sorted_by_amount: b.amount.partial_cmp(&a.amount)
compare_desc(a, b) == partial_cmp(b.amount, a.amount)

\* one insertion of the stable sort: x goes behind every element that the
\* comparator does not put after it
sort_insert(sorted, x) ==
    LET p == Cardinality({i \in 1..Len(sorted) :
                            Unwrap(compare_desc(sorted[i], x)) # "Greater"})
    IN SubSeq(sorted, 1, p) \o <<x>> \o SubSeq(sorted, p + 1, Len(sorted))

\* slice::sort_by (a stable sort) with compare_desc, on amounts that compare
RECURSIVE sort_by_amount(_)
sort_by_amount(seq) ==
    IF seq = <<>> THEN <<>>
    ELSE sort_insert(sort_by_amount(SubSeq(seq, 1, Len(seq) - 1)), seq[Len(seq)])

\* the unwrap of the comparator panics: a sort of two or more elements
\* compares every element at least once, one of a single element none
sort_panics(seq) ==
    Len(seq) >= 2 /\ \E i \in 1..Len(seq) : compare_desc(seq[i], seq[i]) = None

\* fn get_expenses_sorted_by_amount (query)
get_expenses_sorted_by_amount ==
    /\ resp' = Response("get_expenses_sorted_by_amount", NoArgs,
                        IF sort_panics(all_expenses)
                        THEN Trap("called Option::unwrap() on a None value")
                        ELSE Ok(sort_by_amount(all_expenses)))
    /\ NoChange

\* ic_cdk::api::time advances between messages, never within one
Tick ==
    /\ now < MaxTime
    /\ now' = now + 1
    /\ resp' = Response("tick", NoArgs, Ok(<<>>))
    /\ UNCHANGED <<ID_COUNTER, STORAGE, issued, inflight>>

Next ==
    \/ Tick
    \/ \E payload \in Payloads : add_expense(payload)
    \/ \E id \in Ids, payload \in Payloads : update_expense(id, payload)
    \/ \E id \in Ids : delete_expense(id)
    \/ \E id \in Ids : get_expense(id)

Spec == Init /\ [][Next]_vars

\* the same calls on the payloads that validation lets through
EdgeNext ==
    \/ \E payload \in EdgePayloads : add_expense(payload)
    \/ \E id \in Ids, payload \in EdgePayloads : update_expense(id, payload)
    \/ \E id \in Ids : delete_expense(id)
    \/ \E id \in Ids : get_expense(id)

EdgeSpec == Init /\ [][EdgeNext]_vars

\* creates, updates and deletes, and every query
QueryNext ==
    \/ \E payload \in QueryPayloads : add_expense(payload)
    \/ \E id \in Ids : delete_expense(id)
    \/ \E page \in PageInputs, per_page \in PageInputs, checked \in BOOLEAN :
          get_paginated_expenses(page, per_page, checked)
    \/ \E id \in Ids, payload \in QueryPayloads : update_expense(id, payload)
    \/ \E id \in Ids : get_expense(id)
    \/ \E start_date \in DateInputs, end_date \in DateInputs :
          get_expenses_by_date_range(start_date, end_date)
    \/ \E min_amount \in AmountInputs : get_expenses_above_amount(min_amount)
    \/ calculate_total_expenses
    \/ get_expenses_sorted_by_amount

QuerySpec == Init /\ [][QueryNext]_vars

(***************************************************************************)
(* add_expense statement by statement.  inflight holds the executions of   *)
(* add_expense that have begun and not ended, each with its locals: the    *)
(* payload, the counter value read, the id that Cell::set returned (none   *)
(* before the set) and the statement reached.                              *)
(***************************************************************************)
\* the statements at which add_expense hands the canister to other messages
\* by all awaiting everywhere
add_expense_awaits_everywhere == {"read", "written"}

\* the statements at which add_expense hands the canister to other messages:
\* fn add_expense is not async and awaits nothing
add_expense_awaits == {}

\* the canister takes up a message only when no execution is under way, that
\* is when every execution begun is suspended at an await
Idle == \A i \in 1..Len(inflight) : inflight[i].pc \in add_expense_awaits

\* execution i may go on: no other execution is under way
MayStep(i) ==
    \A j \in 1..Len(inflight) : j # i => inflight[j].pc \in add_expense_awaits

\* inflight without execution i
ended(i) == SubSeq(inflight, 1, i - 1) \o SubSeq(inflight, i + 1, Len(inflight))

\* the payloads of StepSpec
StepPayloads ==
    { ExpensePayload(Str("a", 1), F64(1), 1),
      ExpensePayload(Str("a", 1), F64(2), 2),
      ExpensePayload(Str("a", 1), F64(0), 1),
      ExpensePayload(Str("a", 1100), F64(1), 1) }

\* add_expense up to the read of the counter
add_expense_begin(payload) ==
    LET call(ret) == Response("add_expense", [payload |-> payload], ret) IN
    /\ Idle
    /\ IF F64Le(payload.amount, F64(0))
       THEN /\ resp' = call(Err(InvalidInput(Format("Amount must be greater than zero", <<>>))))
            /\ NoChange
       ELSE IF is_empty(payload.description)
       THEN /\ resp' = call(Err(InvalidInput(Format("Description cannot be empty", <<>>))))
            /\ NoChange
       ELSE /\ ID_COUNTER < MaxId
            /\ Len(inflight) < MaxInflight
            /\ inflight' = Append(inflight, [payload |-> payload,
                                             current_value |-> current_value,
                                             id |-> None,
                                             pc |-> "read"])
            /\ UNCHANGED <<ID_COUNTER, STORAGE, now, resp, issued>>

\* counter.borrow_mut().set(current_value + 1), which returns the value it
\* replaces
add_expense_set(i) ==
    /\ MayStep(i)
    /\ inflight[i].pc = "read"
    /\ ID_COUNTER' = inflight[i].current_value + 1
    /\ inflight' = [inflight EXCEPT ![i].id = Some(ID_COUNTER), ![i].pc = "written"]
    /\ UNCHANGED <<STORAGE, now, resp, issued>>

\* add_expense from the building of the record to its return; a panic of the
\* insert drops the counter write with the message
add_expense_insert(i) ==
    LET payload == inflight[i].payload
        call(ret) == Response("add_expense", [payload |-> payload], ret)
        expense == new_expense(Unwrap(inflight[i].id), payload)
    IN /\ MayStep(i)
       /\ inflight[i].pc = "written"
       /\ inflight' = ended(i)
       /\ IF Fits(expense)
          THEN /\ STORAGE' = do_insert(expense)
               /\ issued' = Append(issued, expense.id)
               /\ resp' = call(Ok(expense))
               /\ UNCHANGED <<ID_COUNTER, now>>
          ELSE /\ resp' = call(Trap("Value is too large"))
               /\ ID_COUNTER' = inflight[i].current_value
               /\ UNCHANGED <<STORAGE, now, issued>>

\* the messages of the canister, add_expense taken statement by statement
StepNext ==
    \/ \E payload \in StepPayloads : add_expense_begin(payload)
    \/ \E i \in 1..Len(inflight) : add_expense_set(i)
    \/ \E i \in 1..Len(inflight) : add_expense_insert(i)
    \/ Idle /\ \E id \in Ids : get_expense(id)
    \/ Idle /\ \E id \in Ids : delete_expense(id)
    \/ Idle /\ calculate_total_expenses
    \/ Idle /\ Tick

StepSpec == Init /\ [][StepNext]_vars

(***************************************************************************)
(* Properties.                                                             *)
(***************************************************************************)
\* r is the response of a call of op that ended with tag
Returned(r, op, tag) == r.op = op /\ r.ret.tag = tag

\* r is an Err of the given variant
Failed(r, variant) == r.ret.tag = "Err" /\ r.ret.val.variant = variant

\* the records other than id are the same before and after the step
OthersUnchanged(id) ==
    /\ DOMAIN STORAGE' \ {id} = DOMAIN STORAGE \ {id}
    /\ \A k \in DOMAIN STORAGE \ {id} : STORAGE'[k] = STORAGE[k]

\* C1: the ids that successive successful add_expense calls return are
\* strictly increasing, so none is returned twice, whatever was deleted in
\* between; issued is the sequence of the ids returned so far.
C1_IdsStrictlyIncreasing ==
    /\ \A i, j \in 1..Len(issued) : i < j => issued[i] < issued[j]
    /\ Returned(resp, "add_expense", "Ok") =>
          /\ issued # <<>>
          /\ resp.ret.val.id = issued[Len(issued)]
          /\ \A i \in 1..(Len(issued) - 1) : issued[i] < resp.ret.val.id

\* C1 witness: a second add_expense succeeded after the only record was
\* deleted and the store was empty again.
C1_Witness ==
    /\ Returned(resp, "add_expense", "Ok")
    /\ Len(issued) = 2
    /\ DOMAIN STORAGE = {issued[2]}

\* C2: after add_expense returns Ok with a record of id X, get_expense(X)
\* returns that record; it carries the payload's description, amount and
\* date, created_at is the time of the call and updated_at is absent.  And
\* a payload with a non-blank description, amount > 0 and date # 0 is never
\* answered with InvalidInput.
C2_CreateThenGet ==
    resp.op = "add_expense" =>
        LET payload == resp.args.payload IN
        /\ resp.ret.tag = "Ok" =>
              LET e == resp.ret.val IN
              /\ _get_expense(e.id) = Some(e)
              /\ e.description = payload.description
              /\ e.amount = payload.amount
              /\ e.date = payload.date
              /\ e.created_at = now
              /\ e.updated_at = None
        /\ ( /\ ~IsBlank(payload.description)
             /\ ~payload.amount.nan /\ payload.amount.v > 0
             /\ payload.date # 0 ) => ~Failed(resp, "InvalidInput")

\* C2 witness: a create succeeded while another record was in the store.
C2_Witness ==
    /\ Returned(resp, "add_expense", "Ok")
    /\ Cardinality(DOMAIN STORAGE) = 2
    /\ resp.ret.val.created_at = 2

\* C3: a successful update_expense(X, payload2) leaves under X a record with
\* payload2's description, amount and date, the id and created_at it had,
\* and updated_at present and >= the time of the call; every other record
\* and the id counter are as before.
C3_UpdateSemantics ==
    [][ Returned(resp', "update_expense", "Ok") =>
          LET id == resp'.args.id
              payload2 == resp'.args.payload
          IN /\ id \in DOMAIN STORAGE /\ id \in DOMAIN STORAGE'
             /\ resp'.ret.val = STORAGE'[id]
             /\ STORAGE'[id].description = payload2.description
             /\ STORAGE'[id].amount = payload2.amount
             /\ STORAGE'[id].date = payload2.date
             /\ STORAGE'[id].id = STORAGE[id].id
             /\ STORAGE'[id].created_at = STORAGE[id].created_at
             /\ IsSome(STORAGE'[id].updated_at)
             /\ Unwrap(STORAGE'[id].updated_at) >= now
             /\ OthersUnchanged(id)
             /\ ID_COUNTER' = ID_COUNTER ]_vars

\* C3 witness: a record created at time 1 was updated at time 2 with other
\* field values, beside a second record.
C3_Witness ==
    /\ Returned(resp, "update_expense", "Ok")
    /\ Cardinality(DOMAIN STORAGE) = 2
    /\ resp.ret.val.created_at = 1
    /\ resp.ret.val.updated_at = Some(2)
    /\ resp.ret.val.amount = F64(2)

\* C4: a successful delete_expense(X) returns the record stored under X
\* before the call and removes it, leaving every other record as it was;
\* and an id that was allocated and is absent from the store stays absent.
C4_DeleteRemoves ==
    [][ /\ Returned(resp', "delete_expense", "Ok") =>
              LET id == resp'.args.id
              IN /\ id \in DOMAIN STORAGE
                 /\ resp'.ret.val = STORAGE[id]
                 /\ id \notin DOMAIN STORAGE'
                 /\ OthersUnchanged(id)
        /\ \A k \in 0..(ID_COUNTER - 1) :
              k \notin DOMAIN STORAGE => k \notin DOMAIN STORAGE' ]_vars

\* C4 witness: a record was deleted, another one is still stored, and the
\* deleted id has been answered for.
C4_Witness ==
    /\ Returned(resp, "delete_expense", "Ok")
    /\ resp.args.id \notin DOMAIN STORAGE
    /\ Cardinality(DOMAIN STORAGE) = 1

\* C5: add_expense and update_expense with amount <= 0 or with an empty
\* description return InvalidInput, and the id counter and the record map
\* are the same after the call as before.
C5_RejectedChangesNothing ==
    [][ \A op \in {"add_expense", "update_expense"} :
          resp'.op = op =>
             LET payload == resp'.args.payload
             IN ( \/ (~payload.amount.nan /\ payload.amount.v <= 0)
                  \/ payload.description = <<>> )
                => /\ Failed(resp', "InvalidInput")
                   /\ ID_COUNTER' = ID_COUNTER
                   /\ STORAGE' = STORAGE ]_vars

\* C5 witness: an add_expense with amount 0 was rejected on a store that
\* holds a record.
C5_Witness ==
    /\ resp.op = "add_expense"
    /\ resp.args.payload.amount = F64(0)
    /\ resp.args.payload.description # <<>>
    /\ Failed(resp, "InvalidInput")
    /\ STORAGE # EmptyMap

\* the payload is one the validation of add_expense and update_expense
\* rejects: amount <= 0, or an empty description
Rejected(payload) ==
    \/ (~payload.amount.nan /\ payload.amount.v <= 0)
    \/ payload.description = <<>>

\* the answer r is NotFound and its message carries id
NotFoundNaming(r, id) ==
    /\ Failed(r, "NotFound")
    /\ \E i \in 1..Len(r.ret.val.msg.args) : r.ret.val.msg.args[i] = id

\* C6 as claimed: add_expense and update_expense with a non-empty description
\* made only of whitespace return InvalidInput.
C6_WhitespaceRejected ==
    \A op \in {"add_expense", "update_expense"} :
        resp.op = op =>
            LET payload == resp.args.payload
            IN (payload.description # <<>> /\ IsBlank(payload.description))
               => Failed(resp, "InvalidInput")

\* C7 as claimed: add_expense and update_expense with date 0 return
\* InvalidInput, and no stored record has date 0.
C7_ZeroDateRejected ==
    /\ \A op \in {"add_expense", "update_expense"} :
          resp.op = op =>
              (resp.args.payload.date = 0 => Failed(resp, "InvalidInput"))
    /\ \A k \in DOMAIN STORAGE : STORAGE[k].date # 0

\* C8 as claimed: get_expense, update_expense and delete_expense with an id
\* that is not in the store return NotFound naming the id, and change
\* neither the record map nor the id counter.
C8_AbsentIdNotFound ==
    [][ \A op \in {"get_expense", "update_expense", "delete_expense"} :
          (resp'.op = op /\ resp'.args.id \notin DOMAIN STORAGE) =>
             /\ NotFoundNaming(resp', resp'.args.id)
             /\ STORAGE' = STORAGE
             /\ ID_COUNTER' = ID_COUNTER ]_vars

\* C8 amended: get_expense and delete_expense with an id that is not in the
\* store, and update_expense with such an id and a payload that passes
\* validation, return NotFound naming the id; update_expense with such an id
\* and a payload that fails validation returns InvalidInput; in each case
\* the record map and the id counter are unchanged.
C8_AbsentIdNotFoundIfValid ==
    [][ \A op \in {"get_expense", "update_expense", "delete_expense"} :
          (resp'.op = op /\ resp'.args.id \notin DOMAIN STORAGE) =>
             /\ IF op = "update_expense" /\ Rejected(resp'.args.payload)
                THEN Failed(resp', "InvalidInput")
                ELSE NotFoundNaming(resp', resp'.args.id)
             /\ STORAGE' = STORAGE
             /\ ID_COUNTER' = ID_COUNTER ]_vars

\* C8 witness: an update_expense with a valid payload and an id that was
\* deleted was answered NotFound while another record is stored.
C8_Witness ==
    /\ resp.op = "update_expense"
    /\ ~Rejected(resp.args.payload)
    /\ resp.args.id \notin DOMAIN STORAGE
    /\ resp.args.id < ID_COUNTER
    /\ NotFoundNaming(resp, resp.args.id)
    /\ STORAGE # EmptyMap

\* C9: the id counter starts at 0; a successful add_expense returns the value
\* the counter had and leaves it one higher; every other step (a rejected or
\* trapped create, update, delete, a query) leaves it as it was.  So the
\* k-th successful create gets id k-1.
C9_CounterLifecycle ==
    /\ ID_COUNTER = 0
    /\ [][ IF Returned(resp', "add_expense", "Ok")
           THEN /\ resp'.ret.val.id = ID_COUNTER
                /\ ID_COUNTER' = ID_COUNTER + 1
                /\ issued'[Len(issued')] = Len(issued') - 1
           ELSE ID_COUNTER' = ID_COUNTER ]_vars

\* C9 witness: every record was deleted after two creates and the counter
\* still stands at 2.
C9_Witness ==
    /\ Returned(resp, "delete_expense", "Ok")
    /\ STORAGE = EmptyMap
    /\ ID_COUNTER = 2

\* the slice the pagination contract names: min(per_page, max(0, N - offset))
\* records from offset (page-1)*per_page of the full iteration, the offset
\* being taken in the integers
ExpectedPage(all, page, per_page) ==
    LET N == Len(all)
        Min(a, b) == IF a < b THEN a ELSE b
    IN IF page = 1 \/ per_page = 0
       THEN SubSeq(all, 1, Min(per_page, N))
       ELSE IF page - 1 > N \/ per_page > N
       THEN <<>>
       ELSE SubSeq(all, (page - 1) * per_page + 1,
                   Min(N, (page - 1) * per_page + per_page))

\* C10 as claimed: get_paginated_expenses(page, per_page) with page >= 1
\* returns the min(per_page, max(0, N - (page-1)*per_page)) records that
\* start at offset (page-1)*per_page of the iteration in ascending id order.
C10_PageIsSlice ==
    (resp.op = "get_paginated_expenses" /\ resp.args.page >= 1) =>
        resp.ret = Ok(ExpectedPage(all_expenses, resp.args.page, resp.args.per_page))

\* C11 as claimed: get_paginated_expenses with page = 0 is rejected as an
\* explicit invalid input: it neither aborts nor returns a slice taken at an
\* offset that wrapped around.
C11_PageZeroRejected ==
    (resp.op = "get_paginated_expenses" /\ resp.args.page = 0) =>
        Failed(resp, "InvalidInput")

\* the records of a listing are exactly the stored records, each once
EveryRecordOnce(list) ==
    /\ Len(list) = Cardinality(DOMAIN STORAGE)
    /\ \A k \in DOMAIN STORAGE : \E i \in 1..Len(list) : list[i] = STORAGE[k]

\* the sum of the amounts stored under the keys ks, every amount a number
RECURSIVE SumOfStored(_)
SumOfStored(ks) ==
    IF ks = {} THEN 0
    ELSE LET k == CHOOSE x \in ks : TRUE
         IN STORAGE[k].amount.v + SumOfStored(ks \ {k})

\* the total of the records now in the store
StoredTotal ==
    IF \E k \in DOMAIN STORAGE : STORAGE[k].amount.nan THEN NaN
    ELSE F64(SumOfStored(DOMAIN STORAGE))

\* a listing holds records as they are stored now, in ascending id order
StoredInIdOrder(list) ==
    /\ \A i \in 1..Len(list) :
          list[i].id \in DOMAIN STORAGE /\ list[i] = STORAGE[list[i].id]
    /\ \A i, j \in 1..Len(list) : i < j => list[i].id < list[j].id

\* the ids of the records of a listing
IdsOf(list) == {list[i].id : i \in 1..Len(list)}

\* C12 as claimed: get_expenses_sorted_by_amount returns every stored record
\* exactly once, in descending order of amount, records of equal amount in
\* ascending id order.
C12_SortedDescending ==
    resp.op = "get_expenses_sorted_by_amount" =>
        /\ resp.ret.tag = "Ok"
        /\ EveryRecordOnce(resp.ret.val)
        /\ \A i, j \in 1..Len(resp.ret.val) :
              i < j =>
                 LET a == resp.ret.val[i]
                     b == resp.ret.val[j]
                 IN /\ ~a.amount.nan /\ ~b.amount.nan
                    /\ \/ a.amount.v > b.amount.v
                       \/ a.amount.v = b.amount.v /\ a.id < b.id

\* C13: after any creates, updates and deletes, calculate_total_expenses
\* returns the sum of the amounts of exactly the records now in the store, and
\* 0 when the store is empty.
C13_TotalIsSumOfStored ==
    resp.op = "calculate_total_expenses" =>
        /\ resp.ret = Ok(StoredTotal)
        /\ DOMAIN STORAGE = {} => resp.ret = Ok(F64(0))

\* C13 witness: a total of 2 over the one record left after a delete, its
\* amount set by an update.
C13_Witness ==
    /\ resp.op = "calculate_total_expenses"
    /\ resp.ret = Ok(F64(2))
    /\ DOMAIN STORAGE = {1}
    /\ IsSome(STORAGE[1].updated_at)

\* C14: get_expenses_by_date_range(start, end) returns exactly the stored
\* records whose date d has start <= d <= end, both ends included, in
\* ascending id order, and the empty list when start > end.
C14_DateRangeInclusive ==
    resp.op = "get_expenses_by_date_range" =>
        /\ resp.ret.tag = "Ok"
        /\ StoredInIdOrder(resp.ret.val)
        /\ IdsOf(resp.ret.val) =
              {k \in DOMAIN STORAGE : /\ resp.args.start_date <= STORAGE[k].date
                                      /\ STORAGE[k].date <= resp.args.end_date}
        /\ resp.args.start_date > resp.args.end_date => resp.ret.val = <<>>

\* C14 witness: the range [1, 1] over records dated 1 and 2 returns the one
\* dated 1 (d = start = end) and leaves out the one dated 2 (d = end + 1).
C14_Witness ==
    /\ resp.op = "get_expenses_by_date_range"
    /\ resp.args = [start_date |-> 1, end_date |-> 1]
    /\ DOMAIN STORAGE = {0, 1}
    /\ STORAGE[0].date = 2 /\ STORAGE[1].date = 1
    /\ resp.ret = Ok(<<STORAGE[1]>>)

\* C15: get_expenses_above_amount(t) returns exactly the stored records whose
\* amount is strictly greater than t; a record whose amount equals t is never
\* returned.
C15_AboveIsStrict ==
    resp.op = "get_expenses_above_amount" =>
        LET t == resp.args.min_amount
        IN /\ resp.ret.tag = "Ok"
           /\ StoredInIdOrder(resp.ret.val)
           /\ IdsOf(resp.ret.val) =
                 {k \in DOMAIN STORAGE : /\ ~STORAGE[k].amount.nan
                                         /\ ~t.nan
                                         /\ STORAGE[k].amount.v > t.v}
           /\ \A i \in 1..Len(resp.ret.val) : resp.ret.val[i].amount # t

\* C15 witness: the threshold 1 over records of amounts 1 and 2 returns the
\* record of amount 2 alone.
C15_Witness ==
    /\ resp.op = "get_expenses_above_amount"
    /\ resp.args.min_amount = F64(1)
    /\ DOMAIN STORAGE = {0, 1}
    /\ STORAGE[0].amount = F64(1) /\ STORAGE[1].amount = F64(2)
    /\ resp.ret = Ok(<<STORAGE[1]>>)

\* the query methods of the canister
QueryOps ==
    { "get_expense", "get_expenses_by_date_range", "get_expenses_above_amount",
      "calculate_total_expenses", "get_paginated_expenses",
      "get_expenses_sorted_by_amount" }

\* C16: every query leaves the record map and the id counter as they were,
\* whatever its input and whether it answers or aborts.
C16_QueriesReadOnly ==
    [][resp'.op \in QueryOps => (STORAGE' = STORAGE /\ ID_COUNTER' = ID_COUNTER)]_vars

\* C16 witness: get_expense has answered with a record of a store of two.
C16_Witness ==
    /\ Returned(resp, "get_expense", "Ok")
    /\ DOMAIN STORAGE = {0, 1}
    /\ resp.ret.val = STORAGE[1]
    /\ ID_COUNTER = 2

\* C17: add_expense does its counter read, its counter write and its insert
\* as one step of the canister: while one create is between these, the only
\* steps are its own, so no other request starts and no query sees the
\* counter written without the record stored; no two creates get the same id
\* and no create replaces a record already stored.
C17_CreateIsOneStep ==
    [][/\ inflight # <<>> =>
             /\ inflight' # inflight
             /\ Len(inflight') <= Len(inflight)
       /\ (resp'.op \in QueryOps /\ resp' # resp) => inflight = <<>>
       /\ \A i, j \in 1..Len(issued') : i < j => issued'[i] # issued'[j]
       /\ Len(issued') > Len(issued) =>
             LET id == issued'[Len(issued')]
             IN /\ id \notin DOMAIN STORAGE
                /\ STORAGE'[id].id = id
                /\ OthersUnchanged(id)]_vars

\* C17 witness: a second create has written the counter and not yet inserted
\* its record, the record of the first being stored.
C17_Witness ==
    /\ Len(inflight) = 1
    /\ inflight[1].pc = "written"
    /\ inflight[1].id = Some(1)
    /\ ID_COUNTER = 2
    /\ DOMAIN STORAGE = {0}

\* the record a create would store for payload, whatever its id and time
RecordOf(payload) ==
    [id |-> 0, description |-> payload.description, amount |-> payload.amount,
     date |-> payload.date, created_at |-> 1, updated_at |-> None]

\* C18: a create whose record exceeds the 1024-byte bound fails alone and
\* leaves no partial state: no record over the bound is ever stored, once no
\* create is under way the counter has advanced exactly once per record
\* stored (a failed create gives its counter write back), and only a create
\* whose record is over the bound fails this way, so later creates proceed.
C18_NoPartialState ==
    /\ \A k \in DOMAIN STORAGE : EncodedSize(STORAGE[k]) <= MAX_SIZE
    /\ inflight = <<>> => ID_COUNTER = Len(issued)
    /\ Returned(resp, "add_expense", "Trap") =>
          EncodedSize(RecordOf(resp.args.payload)) > MAX_SIZE
    /\ Returned(resp, "add_expense", "Ok") =>
          EncodedSize(RecordOf(resp.args.payload)) <= MAX_SIZE

\* C18 witness: the last create to end failed on the size bound, and the
\* create after it has been given id 0, the id the failed one gave back.
C18_Witness ==
    /\ Returned(resp, "add_expense", "Trap")
    /\ Len(inflight) = 1
    /\ inflight[1].pc = "written"
    /\ inflight[1].id = Some(0)
    /\ STORAGE = EmptyMap

\* C19: every entry of the map is stored under the id of its record, so
\* there is one record per id at most, and every stored id is below the
\* counter, so the next id allocated is not the id of a stored record.
C19_KeysAreIdsBelowCounter ==
    \A k \in DOMAIN STORAGE : STORAGE[k].id = k /\ k < ID_COUNTER

\* C19 witness: after two creates, a delete and an update, the store holds
\* record 1 alone, updated, and the counter is 2.
C19_Witness ==
    /\ Returned(resp, "update_expense", "Ok")
    /\ DOMAIN STORAGE = {1}
    /\ STORAGE[1] = resp.ret.val
    /\ ID_COUNTER = 2

\* the payload fails both checks: amount <= 0 and empty description
BothInvalid(payload) ==
    /\ ~payload.amount.nan /\ payload.amount.v <= 0
    /\ payload.description = <<>>

\* C20: update_expense validates before it looks the id up, and both calls
\* check the amount before the description: an update with an invalid
\* payload returns InvalidInput also on an absent id, NotFound is returned
\* only for a payload that passes validation, and a payload failing both
\* checks is reported with the amount error by add_expense and update_expense.
C20_ValidationOrder ==
    /\ (resp.op = "update_expense" /\ Rejected(resp.args.payload)) =>
          Failed(resp, "InvalidInput")
    /\ (resp.op = "update_expense" /\ Failed(resp, "NotFound")) =>
          ~Rejected(resp.args.payload)
    /\ (resp.op \in {"add_expense", "update_expense"} /\ BothInvalid(resp.args.payload)) =>
          /\ Failed(resp, "InvalidInput")
          /\ resp.ret.val.msg.fmt = "Amount must be greater than zero"

\* C20 witness: an update of an absent id with a payload failing both checks
\* has been answered with the amount error.
C20_Witness ==
    /\ resp.op = "update_expense"
    /\ resp.args.id \notin DOMAIN STORAGE
    /\ BothInvalid(resp.args.payload)
    /\ Failed(resp, "InvalidInput")
    /\ resp.ret.val.msg.fmt = "Amount must be greater than zero"

====
